---- MODULE Spec2Model ----
(***************************************************************************)
(* Model of the AnyList TypeScript library: the binary-server process      *)
(* manager (lib/server.ts, class AnyListServer) and the address resolution *)
(* of the API client (lib/anylist.ts, class AnyList).                      *)
(*                                                                         *)
(* The host is a single-threaded event loop.  Every action below is one    *)
(* macrotask: a call made by the application, a timer callback, or the     *)
(* delivery of one child-process event to all its listeners.  Promise      *)
(* continuations (the code after an await) run as microtasks and are       *)
(* therefore folded into the macrotask that settles the promise.           *)
(***************************************************************************)
EXTENDS Integers, Sequences, FiniteSets, TLC

(* ---------------------------- bounds ----------------------------------- *)
\* number of lifecycle calls (start/stop/restart) the application issues
MaxCalls == 3
\* largest exit code a child reports
MaxCode == 1
\* number of lifecycle calls issued while the client is exercised
MaxClientMgrCalls == 2
\* largest number of items in the response to GET /items
MaxItems == 2
\* latest clock reading new Date() gives
MaxTime == 1

(* -------------------------- constants ---------------------------------- *)
\* exit code null (the child was terminated by a signal)
NullCode == -1
\* "undefined" for an optional numeric error code
NoCode == -2
\* this.process === undefined
NoProc == 0
\* default timeout of stop()
DefaultTimeout == 5000
\* settle delay of restart()
SettleDelay == 1000

ExitCodes == {NullCode} \cup (0..MaxCode)
\* the (signal, timeout) arguments the application passes to stop()
StopArgs == {<<"SIGTERM", DefaultTimeout>>, <<"SIGINT", 50>>}
ChmodOutcomes == {"ok", "throws", "noop"}
BinaryStates == {"missing", "noexec", "exec"}

NoErr == [type |-> "none", code |-> NoCode, msg |-> ""]
\* new AnyListError(message, type, code)
AnyListError(msg, type, code) == [type |-> type, code |-> code, msg |-> msg]

VARIABLES
  isRunning,      \* AnyListServer.isRunning
  process,        \* AnyListServer.process: NoProc or the index of a child
  child,          \* children spawned so far: "live", "exited" or "failed"
  sig,            \* signals sent to each child with kill()
  exitCode,       \* exit code delivered with each child's 'exit' event
  emits,          \* events the manager emitted on behalf of each child
  stops,          \* the promises returned by stop(), in call order
  rst,            \* the restart() call in progress or last finished
  errorListener,  \* is a listener registered for the manager's 'error'
  ret,            \* outcome of the last start() call
  ncalls,         \* lifecycle calls issued so far
  port            \* AnyListServer.config.port

VARIABLES
  serverAddress,  \* AnyList.config.serverAddress
  binaryServer,   \* AnyList.binaryServer: "unset" or "manager"
  defaultList,    \* AnyList.config.defaultList
  creq,           \* HTTP requests issued by the last client operation
  cres,           \* outcome of the last client operation
  ccall,          \* arguments of the last client operation and the
                  \* transport's answer to its request
  cdata           \* payload the last client operation returned

VARIABLES
  dirExists,      \* the directory of credentialsPath exists
  file,           \* the file at credentialsPath: its content and mode
  now,            \* the clock read by new Date()
  alast           \* the last operation on the credential store

mgrVars == <<isRunning, process, child, sig, exitCode, emits, stops, rst,
             errorListener, ret, ncalls, port>>
clientVars == <<serverAddress, binaryServer, defaultList, creq, cres, ccall, cdata>>
authVars == <<dirExists, file, now, alast>>
vars == <<isRunning, process, child, sig, exitCode, emits, stops, rst,
          errorListener, ret, ncalls, serverAddress, binaryServer, defaultList, creq,
          cres, ccall, cdata, dirExists, file, now, alast, port>>

Pids == DOMAIN child
LiveChildren == {p \in Pids : child[p] = "live"}

(* --------------------------- AnyListServer ----------------------------- *)

\* get available()
Available(run, proc) == run /\ proc # NoProc

Event(ev, kind, code) == [ev |-> ev, kind |-> kind, code |-> code]

\* EventEmitter.emit('error', e) throws e when no 'error' listener exists
EmitErrorThrows == ~errorListener

\* fs.existsSync(this.config.binary)
BinaryExists(b) == b # "missing"

\* ensureExecutablePermissions(): the error it throws, or NoErr
PermissionError(b, chm) ==
  IF b = "exec" THEN NoErr
  ELSE IF chm = "throws"
       THEN AnyListError("Failed to check/set binary permissions", "BINARY_ERROR", NoCode)
  ELSE IF chm = "noop"
       THEN AnyListError("Failed to fix server binary permissions", "BINARY_ERROR", NoCode)
  ELSE NoErr

\* the file after ensureExecutablePermissions()
BinaryAfterChmod(b, chm) ==
  IF b = "noexec" /\ chm = "ok" THEN "exec" ELSE b

\* variant: start() without the fs.existsSync check
StartErrorUnchecked(b, chm, spawnThrows) ==
  IF PermissionError(b, chm) # NoErr THEN PermissionError(b, chm)
  ELSE IF spawnThrows
       THEN AnyListError("Failed to start server", "BINARY_ERROR", NoCode)
  ELSE NoErr

\* the error start() throws for these inputs, or NoErr when it returns
StartError(b, chm, spawnThrows) ==
  IF ~BinaryExists(b)
  THEN AnyListError("Failed to locate server binary", "BINARY_ERROR", NoCode)
  ELSE IF PermissionError(b, chm) # NoErr THEN PermissionError(b, chm)
  ELSE IF spawnThrows
       THEN AnyListError("Failed to start server", "BINARY_ERROR", NoCode)
  ELSE NoErr

\* body of start() for a binary file found in state b: the manager's fields
\* and the children
StartBody(b, chm, spawnThrows) ==
  LET err == StartError(b, chm, spawnThrows)
      pid == Len(child) + 1
  IN  /\ ret' = [exists |-> BinaryExists(b), err |-> err,
                 spawned |-> IF err = NoErr THEN pid ELSE NoProc]
      /\ IF err = NoErr
         THEN /\ process' = pid
              /\ isRunning' = TRUE
              /\ child' = Append(child, "live")
              /\ sig' = Append(sig, {})
              /\ exitCode' = Append(exitCode, NoCode)
              /\ emits' = Append(emits, <<Event("started", "", NoCode)>>)
         ELSE /\ isRunning' = FALSE
              /\ UNCHANGED <<process, child, sig, exitCode, emits>>

\* the promise returned by a stop() call that found nothing to stop
ImmediateStop(signal, timeout, by) ==
  [proc |-> NoProc, signal |-> signal, timeout |-> timeout, by |-> by,
   state |-> "resolved", timer |-> "none", attached |-> FALSE,
   first |-> "immediate", sentKill |-> FALSE, err |-> NoErr]

\* the promise returned by a stop() call that signalled child p
WaitingStop(p, signal, timeout, by) ==
  [proc |-> p, signal |-> signal, timeout |-> timeout, by |-> by,
   state |-> "pending", timer |-> "armed", attached |-> TRUE,
   first |-> "none", sentKill |-> FALSE, err |-> NoErr]

\* variant: the early return tests the handle only
StopReturnsEarlyHandleOnly(run, proc) == proc = NoProc

\* stop(): the early return of the promise executor
StopReturnsEarly(run, proc) == proc = NoProc \/ ~run

\* body of stop(signal, timeout): the new promise and the signal sent
StopBody(signal, timeout, by) ==
  IF StopReturnsEarly(isRunning, process)
  THEN /\ stops' = Append(stops, ImmediateStop(signal, timeout, by))
       /\ UNCHANGED sig
  ELSE /\ stops' = Append(stops, WaitingStop(process, signal, timeout, by))
       /\ sig' = [sig EXCEPT ![process] = @ \cup {signal}]

\* resolve() / reject(e) of a promise: only the first settlement counts
Resolve(s) == IF s.state = "pending" THEN [s EXCEPT !.state = "resolved"] ELSE s
Reject(s, e) ==
  IF s.state = "pending" THEN [s EXCEPT !.state = "rejected", !.err = e] ELSE s

\* clearTimeout(forceKillTimeout)
ClearTimeout(s) == IF s.timer = "armed" THEN [s EXCEPT !.timer = "cleared"] ELSE s

\* this.process?.removeListener(...) as called from a listener of child p:
\* it acts on the child this.process names at that moment
RemoveListeners(s, procNow) ==
  IF procNow = s.proc THEN [s EXCEPT !.attached = FALSE] ELSE s

\* onExit of a stop() call
OnExit(s, procNow) == Resolve(RemoveListeners(ClearTimeout(s), procNow))

\* onError of a stop() call
OnError(s, procNow) ==
  Reject(RemoveListeners(ClearTimeout(s), procNow),
         AnyListError("Error stopping server", "BINARY_ERROR", NoCode))

\* the callback of forceKillTimeout
OnTimeout(s, run, proc) ==
  IF proc # NoProc /\ run
  THEN Reject([s EXCEPT !.timer = "fired", !.sentKill = TRUE],
              AnyListError("Server process had to be force killed", "BINARY_ERROR", NoCode))
  ELSE [s EXCEPT !.timer = "fired"]

\* which of exit, error and timeout a waiting stop() saw first
MarkFirst(s, what) == IF s.first = "none" THEN [s EXCEPT !.first = what] ELSE s

\* variant: restart() swallows a rejected stop() and goes on
RestartIgnoresRejection(r, s) ==
  IF s.state \in {"resolved", "rejected"}
  THEN [r EXCEPT !.pc = "delay", !.delay = SettleDelay]
  ELSE r

\* restart(): the code after `await this.stop()`, run when that promise settles
RestartAfterStop(r, s) ==
  IF s.state = "resolved" THEN [r EXCEPT !.pc = "delay", !.delay = SettleDelay]
  ELSE IF s.state = "rejected" THEN [r EXCEPT !.pc = "failed", !.err = s.err]
  ELSE r

RstAfter(stops2) ==
  IF rst.pc = "stopping" THEN RestartAfterStop(rst, stops2[rst.stop]) ELSE rst

\* the 'exit' listener registered by start(): does its emit('error') throw
ExitHandlerThrows(code) == code # NullCode /\ code > 0 /\ EmitErrorThrows

\* the events the 'exit' listener registered by start() emits
ExitEmits(code) ==
  IF code # NullCode /\ code > 0
  THEN IF EmitErrorThrows THEN <<>>
       ELSE <<Event("error", "BINARY_ERROR", code), Event("stopped", "", code)>>
  ELSE <<Event("stopped", "", code)>>

\* the events the 'error' listener registered by start() emits
ErrorEmits ==
  IF EmitErrorThrows THEN <<>> ELSE <<Event("error", "BINARY_ERROR", NoCode)>>

\* variant: the listeners leave isRunning and process as they found them
HandlerKeeps(run, proc) == [isRunning |-> run, process |-> proc]

\* the fields the 'exit' and 'error' listeners registered by start() assign,
\* given the values they find
HandlerClears(run, proc) == [isRunning |-> FALSE, process |-> NoProc]


(* ------------------------- manager actions ----------------------------- *)

NoRestart == [pc |-> "idle", stop |-> 0, old |-> NoProc, wasRunning |-> FALSE,
              delay |-> 0, new |-> NoProc, err |-> NoErr]
NoStart == [exists |-> TRUE, err |-> NoErr, spawned |-> NoProc]

\* the application awaits every lifecycle call before it issues the next one
CallerFree ==
  /\ rst.pc \notin {"stopping", "delay"}
  /\ \A i \in DOMAIN stops : stops[i].by = "caller" => stops[i].state # "pending"

\* server.start()
StartCall(limit, b, chm, spawnThrows) ==
  /\ CallerFree /\ ncalls < limit
  /\ ncalls' = ncalls + 1
  /\ StartBody(b, chm, spawnThrows)
  /\ UNCHANGED <<stops, rst, errorListener>>
  /\ UNCHANGED <<port, clientVars, authVars>>

\* server.stop(signal, timeout)
StopCall(limit, signal, timeout) ==
  /\ CallerFree /\ ncalls < limit
  /\ ncalls' = ncalls + 1
  /\ StopBody(signal, timeout, "caller")
  /\ UNCHANGED <<isRunning, process, child, exitCode, emits, rst, errorListener, ret>>
  /\ UNCHANGED <<port, clientVars, authVars>>

\* server.restart() up to its first await
RestartCall(limit) ==
  /\ CallerFree /\ ncalls < limit
  /\ ncalls' = ncalls + 1
  /\ IF isRunning
     THEN /\ StopBody("SIGTERM", DefaultTimeout, "restart")
          /\ rst' = RestartAfterStop(
                      [NoRestart EXCEPT !.pc = "stopping", !.stop = Len(stops) + 1,
                                        !.old = process, !.wasRunning = TRUE],
                      stops'[Len(stops) + 1])
     ELSE /\ rst' = [NoRestart EXCEPT !.pc = "delay", !.delay = SettleDelay, !.old = process]
          /\ UNCHANGED <<stops, sig>>
  /\ UNCHANGED <<isRunning, process, child, exitCode, emits, errorListener, ret>>
  /\ UNCHANGED <<port, clientVars, authVars>>

\* restart(): the settle delay has elapsed, start() is called
RestartDelayElapsed(b, chm, spawnThrows) ==
  /\ rst.pc = "delay"
  /\ StartBody(b, chm, spawnThrows)
  /\ rst' = [rst EXCEPT !.pc = IF ret'.err = NoErr THEN "done" ELSE "failed",
                        !.err = ret'.err, !.new = ret'.spawned]
  /\ UNCHANGED <<stops, errorListener, ncalls>>
  /\ UNCHANGED <<port, clientVars, authVars>>

\* the force-kill timer of stop() call i fires
ForceKillTimeout(i) ==
  /\ i \in DOMAIN stops /\ stops[i].timer = "armed"
  /\ stops' = [stops EXCEPT ![i] = OnTimeout(MarkFirst(@, "timeout"), isRunning, process)]
  /\ sig' = IF stops'[i].sentKill THEN [sig EXCEPT ![process] = @ \cup {"SIGKILL"}] ELSE sig
  /\ rst' = RstAfter(stops')
  /\ UNCHANGED <<isRunning, process, child, exitCode, emits, errorListener, ret, ncalls>>
  /\ UNCHANGED <<port, clientVars, authVars>>

\* child p exits with this code: its 'exit' listeners run in registration
\* order, the one registered by start() first, then the onExit of every
\* stop() call still attached; a listener that throws ends the delivery
ProcExit(p, code) ==
  /\ p \in Pids /\ child[p] = "live"
  /\ child' = [child EXCEPT ![p] = "exited"]
  /\ exitCode' = [exitCode EXCEPT ![p] = code]
  /\ isRunning' = HandlerClears(isRunning, process).isRunning
  /\ process' = HandlerClears(isRunning, process).process
  /\ emits' = [emits EXCEPT ![p] = @ \o ExitEmits(code)]
  /\ stops' = [i \in DOMAIN stops |->
                 IF stops[i].proc = p /\ stops[i].attached
                 THEN IF ExitHandlerThrows(code)
                      THEN MarkFirst(stops[i], "exit")
                      ELSE OnExit(MarkFirst(stops[i], "exit"), process')
                 ELSE stops[i]]
  /\ rst' = RstAfter(stops')
  /\ UNCHANGED <<sig, errorListener, ret, ncalls>>
  /\ UNCHANGED <<port, clientVars, authVars>>

\* child p reports a process error (it could not be spawned): its 'error'
\* listeners run in registration order
ProcError(p) ==
  /\ p \in Pids /\ child[p] = "live"
  /\ child' = [child EXCEPT ![p] = "failed"]
  /\ isRunning' = HandlerClears(isRunning, process).isRunning
  /\ process' = HandlerClears(isRunning, process).process
  /\ emits' = [emits EXCEPT ![p] = @ \o ErrorEmits]
  /\ stops' = [i \in DOMAIN stops |->
                 IF stops[i].proc = p /\ stops[i].attached
                 THEN IF EmitErrorThrows
                      THEN MarkFirst(stops[i], "error")
                      ELSE OnError(MarkFirst(stops[i], "error"), process')
                 ELSE stops[i]]
  /\ rst' = RstAfter(stops')
  /\ UNCHANGED <<sig, exitCode, errorListener, ret, ncalls>>
  /\ UNCHANGED <<port, clientVars, authVars>>

\* server.on('error', listener) / server.removeAllListeners('error')
AddErrorListener ==
  /\ ~errorListener /\ errorListener' = TRUE
  /\ UNCHANGED <<isRunning, process, child, sig, exitCode, emits, stops, rst, ret, ncalls>>
  /\ UNCHANGED <<port, clientVars, authVars>>

RemoveErrorListener ==
  /\ errorListener /\ errorListener' = FALSE
  /\ UNCHANGED <<isRunning, process, child, sig, exitCode, emits, stops, rst, ret, ncalls>>
  /\ UNCHANGED <<port, clientVars, authVars>>

(* ------------------------------ AnyList -------------------------------- *)

\* config.serverAddress left out of the configuration
Undefined == "<undefined>"
\* the address getServerAddress() returns for an available binary server
Loopback == "http://127.0.0.1:28597"

\* DEFAULT_CONFIG.DEFAULT_PORT, and the ports a setup is created with
DefaultPort == "28597"
Ports == {DefaultPort, "9000"}
\* args = ['--port', this.config.port, ...]: the port every child of the
\* manager is told to listen on
PortArg == port
\* getServerAddress() threw
NoAddress == "<none>"

AddressValues == {Undefined, "", "http://remote:8080", "http://remote:8080/"}
ClientOps == {"addItem", "removeItemByName", "removeItemById", "updateItem",
              "checkItem", "getDetailedItems", "getItems", "getAllItems", "getLists"}
ReadOps == {"getDetailedItems", "getItems", "getAllItems", "getLists"}
\* what the transport does with a request: a response status, or no response
TransportFailure == 0
Responses == {TransportFailure, 200, 204, 304, 500}
\* the responses drawn while address resolution is exercised
AddressResponses == {TransportFailure, 200, 500}

\* the listName argument of an operation (Undefined: left out) and the
\* values of config.defaultList
ListArgs == {Undefined, "", "Custom List"}
DefaultLists == {Undefined, "", "Shopping"}
\* the items of a 200 response to GET /items, the lists of one to GET /lists
ItemNames == {"milk", "eggs"}
Item == [name : ItemNames, checked : BOOLEAN]
ItemSeqs == UNION {[1..n -> Item] : n \in 0..MaxItems}
ListSeqs == {<<>>, <<"Shopping", "Custom List">>}

\* the endpoint name each operation passes to getServerUrl()
Endpoint(op) ==
  CASE op = "addItem" -> "add"
    [] op \in {"removeItemByName", "removeItemById"} -> "remove"
    [] op = "updateItem" -> "update"
    [] op = "checkItem" -> "check"
    [] op = "getLists" -> "lists"
    [] OTHER -> "items"

Method(op) == IF op \in ReadOps THEN "GET" ELSE "POST"

\* if (this.config.serverAddress), if (this.binaryServer?.available)
Truthy(a) == a # Undefined /\ a # ""

\* variant: availability is taken when the manager is bound, never re-read
BinaryServerBoundOnly(bound) == bound = "manager"

BinaryServerAvailable(bound) == bound = "manager" /\ Available(isRunning, process)

\* variant: an available binary server takes precedence over the configuration
GetServerAddressServerFirst(addr, bound) ==
  IF BinaryServerAvailable(bound) THEN Loopback
  ELSE IF Truthy(addr) THEN addr
  ELSE NoAddress

\* getServerAddress(): the address, or NoAddress when it throws SERVER_ERROR
GetServerAddress(addr, bound) ==
  IF Truthy(addr) THEN addr
  ELSE IF BinaryServerAvailable(bound) THEN Loopback
  ELSE NoAddress

\* variant: only an argument or default that is left out is skipped
GetListNameNullish(listName, dflt) ==
  IF listName # Undefined THEN listName
  ELSE IF dflt # Undefined THEN dflt
  ELSE ""

\* getListName(listName): listName || this.config.defaultList || ''
GetListName(listName, dflt) ==
  IF Truthy(listName) THEN listName
  ELSE IF Truthy(dflt) THEN dflt
  ELSE ""

\* the list an operation puts in its request: body.list of the writes, the
\* list query parameter of the item reads (left out for an empty name),
\* nothing for getLists
RequestList(op, listName, dflt) ==
  IF op = "getLists" THEN Undefined
  ELSE IF op \in ReadOps /\ ~Truthy(GetListName(listName, dflt)) THEN Undefined
  ELSE GetListName(listName, dflt)

\* getServerUrl(endpoint) for a resolved address
GetServerUrl(address, endpoint) == address \o "/" \o endpoint

\* axios resolves for a 2xx status and rejects otherwise (validateStatus)
AxiosResolves(resp) == resp # TransportFailure /\ resp >= 200 /\ resp < 300

\* the status codes a write operation accepts
SuccessCodes(op) == IF op = "updateItem" THEN {200} ELSE {200, 304}

Returned(op, code) == [op |-> op, kind |-> "return", code |-> code, err |-> NoErr]
Thrown(op, e) == [op |-> op, kind |-> "throw", code |-> NoCode, err |-> e]

\* outcome of addItem, removeItemByName, removeItemById, updateItem, checkItem
WriteOutcome(op, address, resp) ==
  IF address = NoAddress
  THEN Thrown(op, AnyListError("Binary server is not running", "SERVER_ERROR", NoCode))
  ELSE IF ~AxiosResolves(resp)
  THEN Thrown(op, AnyListError("Network error", "NETWORK_ERROR", NoCode))
  ELSE IF resp \notin SuccessCodes(op)
  THEN Thrown(op, AnyListError("Received error code", "SERVER_ERROR", resp))
  ELSE Returned(op, resp)

\* variant: the catch block of the reads also swallows the AnyListError of
\* getServerAddress()
ReadOutcomeSwallows(op, address, resp) ==
  IF address = NoAddress \/ resp = TransportFailure THEN Returned(op, 500)
  ELSE IF ~AxiosResolves(resp) THEN Returned(op, resp)
  ELSE IF resp # 200
  THEN Thrown(op, AnyListError("Received error code", "SERVER_ERROR", resp))
  ELSE Returned(op, 200)

\* outcome of getDetailedItems and getLists, and of getItems and getAllItems
\* which pass on what getDetailedItems returns or throws
ReadOutcome(op, address, resp) ==
  IF address = NoAddress
  THEN Thrown(op, AnyListError("Binary server is not running", "SERVER_ERROR", NoCode))
  ELSE IF resp = TransportFailure THEN Returned(op, 500)
  ELSE IF ~AxiosResolves(resp) THEN Returned(op, resp)
  ELSE IF resp # 200
  THEN Thrown(op, AnyListError("Received error code", "SERVER_ERROR", resp))
  ELSE Returned(op, 200)

\* the requests an operation hands to the transport
RequestsOf(op, address, list) ==
  IF address = NoAddress THEN <<>>
  ELSE <<[method |-> Method(op), url |-> GetServerUrl(address, Endpoint(op)),
          list |-> list]>>

\* items.filter(...).map(item => item.name)
NamesOf(items) == [k \in DOMAIN items |-> items[k].name]
UncheckedNames(items) == NamesOf(SelectSeq(items, LAMBDA i : ~i.checked))
CheckedNames(items) == NamesOf(SelectSeq(items, LAMBDA i : i.checked))

\* the second component of what a read returns: response.data.items or
\* response.data.lists for getDetailedItems and getLists, the names getItems
\* and getAllItems select from the items; <<>> when nothing is returned
ReadData(op, outcome, payload) ==
  IF outcome.kind # "return" \/ op \notin ReadOps THEN <<>>
  ELSE IF op = "getAllItems"
  THEN IF outcome.code = 200 THEN <<UncheckedNames(payload), CheckedNames(payload)>>
       ELSE << <<>>, <<>> >>
  ELSE IF outcome.code # 200 THEN <<>>
  ELSE IF op = "getItems" THEN UncheckedNames(payload)
  ELSE payload

NoCall == [listName |-> Undefined, resp |-> NoCode, payload |-> <<>>]
\* what a call consumed: its listName, and the answer to its request if one
\* was sent
CallOf(op, address, resp, listName, payload) ==
  [listName |-> listName,
   resp |-> IF address = NoAddress THEN NoCode ELSE resp,
   payload |-> IF address = NoAddress THEN <<>> ELSE payload]

NoResult == [op |-> "none", kind |-> "none", code |-> NoCode, err |-> NoErr]

\* one client operation, from the call to the settlement of its promise
ClientCall(op, resp, listName, payload) ==
  LET address == GetServerAddress(serverAddress, binaryServer)
      outcome == IF op \in ReadOps THEN ReadOutcome(op, address, resp)
                 ELSE WriteOutcome(op, address, resp)
  IN  /\ creq' = RequestsOf(op, address, RequestList(op, listName, defaultList))
      /\ cres' = outcome
      /\ ccall' = CallOf(op, address, resp, listName, payload)
      /\ cdata' = ReadData(op, outcome, payload)
      /\ UNCHANGED <<serverAddress, binaryServer, defaultList>>
      /\ UNCHANGED <<mgrVars, authVars>>

\* client.setBinaryServer(server)
SetBinaryServer(b) ==
  /\ b # binaryServer /\ binaryServer' = b
  /\ UNCHANGED <<serverAddress, defaultList, creq, cres, ccall, cdata>>
  /\ UNCHANGED <<mgrVars, authVars>>

\* client.updateConfig({serverAddress: a})
UpdateConfig(a) ==
  /\ a # serverAddress /\ serverAddress' = a
  /\ UNCHANGED <<binaryServer, defaultList, creq, cres, ccall, cdata>>
  /\ UNCHANGED <<mgrVars, authVars>>

\* client.updateConfig({defaultList: l})
UpdateConfigDefaultList(l) ==
  /\ l # defaultList /\ defaultList' = l
  /\ UNCHANGED <<serverAddress, binaryServer, creq, cres, ccall, cdata>>
  /\ UNCHANGED <<mgrVars, authVars>>

(* ---------------------------- AuthManager ------------------------------ *)

\* strings the code inspects character by character are sequences of
\* characters: email addresses and passwords
Chars(c, n) == [i \in 1..n |-> c]
EmailA == <<"a", "@", "x", ".", "y">>
EmailB == <<"b", "@", "x", ".", "y">>
\* 'invalid-email': no @
EmailBad == <<"a", "x", ".", "y">>
PasswordP == Chars("p", 6)
PasswordQ == Chars("q", 7)
PasswordShort == Chars("p", 5)
PasswordEmpty == <<>>
AddressA == "http://localhost:28597"
AddressB == "http://new-server:8080"

\* /^[^\s@]+@[^\s@]+\.[^\s@]+$/ : three non-empty runs without whitespace
\* and @, separated by an @ and a later dot
PlainRun(e, from, to) ==
  from <= to /\ \A k \in from..to : e[k] \notin {" ", "@"}
ValidateEmail(e) ==
  \E i \in DOMAIN e, j \in DOMAIN e :
    /\ i < j /\ e[i] = "@" /\ e[j] = "."
    /\ PlainRun(e, 1, i - 1) /\ PlainRun(e, i + 1, j - 1) /\ PlainRun(e, j + 1, Len(e))

MinPasswordLength == 6
\* validatePassword(password): "valid" or the message of the failing rule
ValidatePassword(pw) ==
  IF pw = <<>> THEN "Password cannot be empty"
  ELSE IF Len(pw) < MinPasswordLength THEN "Password must be at least 6 characters long"
  ELSE "valid"

\* a credentials object is a function from its property names to their
\* values; serverAddress is optional and may also be present as undefined
Has(rec, k) == k \in DOMAIN rec
Credential(e, pw) == [email |-> e, password |-> pw]
WithAddress(rec, a) ==
  [k \in DOMAIN rec \cup {"serverAddress"} |-> IF k = "serverAddress" THEN a ELSE rec[k]]
Without(rec, keys) == [k \in DOMAIN rec \ keys |-> rec[k]]

\* the arguments saveCredentials() is called with
CredentialInputs ==
  {Credential(e, pw) : e \in {EmailA, EmailBad}, pw \in {PasswordP, PasswordShort, PasswordEmpty}}
  \cup {WithAddress(Credential(e, pw), AddressA) :
          e \in {EmailA, EmailBad}, pw \in {PasswordP, PasswordShort, PasswordEmpty}}
  \cup {WithAddress(Credential(EmailB, PasswordQ), AddressB),
        WithAddress(Credential(EmailA, PasswordP), Undefined)}

\* the arguments updateCredentials() is called with
UpdateInputs ==
  {Without(WithAddress(Credential(e, pw), AddressB), drop) :
     e \in {EmailB, EmailBad}, pw \in {PasswordQ, PasswordShort, PasswordEmpty},
     drop \in SUBSET {"email", "password", "serverAddress"}}

\* JSON.stringify leaves out the properties whose value is undefined
Stringify(rec) ==
  [k \in {x \in DOMAIN rec : x # "serverAddress" \/ rec[x] # Undefined} |-> rec[k]]

OwnerOnly == "0600"
WorldReadable == "0644"
NoFile == [kind |-> "absent"]
\* a file holding the JSON text of an object, the JSON text null, or text
\* that is not JSON
JsonFile(rec, mode) == [kind |-> "json", value |-> rec, mode |-> mode]
NullFile(mode) == [kind |-> "null", mode |-> mode]
TextFile(mode) == [kind |-> "text", mode |-> mode]

\* what another program may leave at credentialsPath
ExternalContents ==
  {TextFile(WorldReadable), NullFile(WorldReadable),
   JsonFile([email |-> EmailA], WorldReadable),
   JsonFile([email |-> <<>>, password |-> PasswordP], WorldReadable),
   JsonFile([email |-> EmailBad, password |-> PasswordP,
             serverAddress |-> AddressA, savedAt |-> 0], WorldReadable),
   JsonFile([email |-> EmailB, password |-> PasswordQ,
             serverAddress |-> AddressB, savedAt |-> 0], WorldReadable)}

NullValue == [null |-> TRUE]
NoArg == [none |-> TRUE]
Outcome(op, arg, kind, value, err) ==
  [op |-> op, arg |-> arg, kind |-> kind, value |-> value, err |-> err]
NoOperation == Outcome("none", NoArg, "none", NullValue, NoErr)

\* !credentials.email, !credentials.password
Missing(rec, k) == ~Has(rec, k) \/ rec[k] = <<>>

Result(kind, value, err) == [kind |-> kind, value |-> value, err |-> err]
AuthError(msg) == AnyListError(msg, "AUTH_ERROR", NoCode)
ValidationError(msg) == AnyListError(msg, "VALIDATION_ERROR", NoCode)

\* variant: a file that cannot be used is treated like a missing file
LoadResultLenient(f) ==
  IF f.kind # "json" THEN Result("return", NullValue, NoErr)
  ELSE IF Missing(f.value, "email") \/ Missing(f.value, "password")
  THEN Result("return", NullValue, NoErr)
  ELSE Result("return", f.value, NoErr)

\* loadCredentials(): null, the parsed record, or the error thrown
LoadResult(f) ==
  IF f.kind = "absent" THEN Result("return", NullValue, NoErr)
  ELSE IF f.kind = "text"
  THEN Result("throw", NullValue, AuthError("Corrupted credentials file: invalid JSON"))
  ELSE IF f.kind = "null"
  THEN Result("throw", NullValue, AuthError("Failed to load credentials"))
  ELSE IF Missing(f.value, "email") \/ Missing(f.value, "password")
  THEN Result("throw", NullValue,
              AuthError("Corrupted credentials file: missing required fields"))
  ELSE Result("return", f.value, NoErr)

\* variant: only the email and the password are persisted
WrittenRecordCore(c, t) == [email |-> c.email, password |-> c.password, savedAt |-> t]

\* JSON.stringify({...credentials, savedAt: new Date().toISOString()})
WrittenRecord(c, t) ==
  Stringify([k \in DOMAIN c \cup {"savedAt"} |-> IF k = "savedAt" THEN t ELSE c[k]])

\* writeFile(path, data, {mode: 0o600}): the mode is given to a file the
\* call creates; an existing file keeps its mode
ModeAfterWrite(f) == IF f.kind = "absent" THEN OwnerOnly ELSE f.mode

\* what mkdirSync and writeFile may do; mkdirSync is only called, and can
\* only fail, when the directory does not exist
MkdirOutcomes == {"ok", "throws"}
WriteOutcomes == {"ok", "throws", "truncates"}

Effect(d, f, res) == [dir |-> d, file |-> f, res |-> res]

\* variant: the directory is prepared before the credentials are validated
SaveEffectMkdirFirst(c, t, mk, wr, d, f) ==
  IF ~d /\ mk = "throws"
  THEN Effect(d, f, Result("throw", NullValue, AuthError("Failed to save credentials")))
  ELSE IF ~ValidateEmail(c.email)
  THEN Effect(TRUE, f, Result("throw", NullValue, ValidationError("Invalid email format")))
  ELSE IF ValidatePassword(c.password) # "valid"
  THEN Effect(TRUE, f, Result("throw", NullValue, ValidationError(ValidatePassword(c.password))))
  ELSE IF wr = "throws"
  THEN Effect(TRUE, f, Result("throw", NullValue, AuthError("Failed to save credentials")))
  ELSE IF wr = "truncates"
  THEN Effect(TRUE, TextFile(ModeAfterWrite(f)),
              Result("throw", NullValue, AuthError("Failed to save credentials")))
  ELSE Effect(TRUE, JsonFile(WrittenRecord(c, t), ModeAfterWrite(f)),
              Result("return", NullValue, NoErr))

\* saveCredentials(credentials) at time t, from directory state d and file f
SaveEffect(c, t, mk, wr, d, f) ==
  IF ~ValidateEmail(c.email)
  THEN Effect(d, f, Result("throw", NullValue, ValidationError("Invalid email format")))
  ELSE IF ValidatePassword(c.password) # "valid"
  THEN Effect(d, f, Result("throw", NullValue, ValidationError(ValidatePassword(c.password))))
  ELSE IF ~d /\ mk = "throws"
  THEN Effect(d, f, Result("throw", NullValue, AuthError("Failed to save credentials")))
  ELSE IF wr = "throws"
  THEN Effect(TRUE, f, Result("throw", NullValue, AuthError("Failed to save credentials")))
  ELSE IF wr = "truncates"
  THEN Effect(TRUE, TextFile(ModeAfterWrite(f)),
              Result("throw", NullValue, AuthError("Failed to save credentials")))
  ELSE Effect(TRUE, JsonFile(WrittenRecord(c, t), ModeAfterWrite(f)),
              Result("return", NullValue, NoErr))

\* variant: the stored values win over the updates
MergeKeepsExisting(existing, updates) ==
  [k \in DOMAIN existing \cup DOMAIN updates |->
     IF k \in DOMAIN existing THEN existing[k] ELSE updates[k]]

\* {...existingCredentials, ...updates}
Merge(existing, updates) ==
  [k \in DOMAIN existing \cup DOMAIN updates |->
     IF k \in DOMAIN updates THEN updates[k] ELSE existing[k]]

\* updateCredentials(updates)
UpdateEffect(u, t, mk, wr, d, f) ==
  LET loaded == LoadResult(f)
  IN  IF loaded.kind = "throw" THEN Effect(d, f, loaded)
      ELSE IF loaded.value = NullValue
      THEN Effect(d, f, Result("throw", NullValue,
                               AuthError("No existing credentials to update")))
      ELSE SaveEffect(Without(Merge(loaded.value, u), {"savedAt"}), t, mk, wr, d, f)

\* new URL(address).protocol for the addresses used here; "throws" when
\* the text is not a URL
UrlProtocol(address) ==
  CASE address \in {"http://localhost:28597", "http://new-server:8080",
                    "http://remote:8080", "http://remote:8080/",
                    "http://127.0.0.1:28597"} -> "http:"
    [] address = "https://api.example.com" -> "https:"
    [] address = "ftp://example.com" -> "ftp:"
    [] OTHER -> "throws"

\* validateServerAddress(serverAddress)
ValidateServerAddress(address) == UrlProtocol(address) \in {"http:", "https:"}

MinRefreshInterval == 1
MaxRefreshInterval == 1440
\* the paths of an existing and of a missing server binary
PresentBinary == "/opt/anylist/server"
MissingBinary == "/opt/anylist/missing"
\* fs.existsSync(config.serverBinary)
PathExists(path) == path = PresentBinary

\* if (config.email), if (config.password): the property is there and not
\* the empty string
GivenText(cfg, k) == Has(cfg, k) /\ cfg[k] # <<>>
\* if (config.serverAddress), if (config.serverBinary)
GivenString(cfg, k) == Has(cfg, k) /\ Truthy(cfg[k])

\* AuthManager.validateConfig(config): "valid", or the message of the
\* VALIDATION_ERROR it throws
ValidateConfig(cfg) ==
  IF GivenText(cfg, "email") /\ ~ValidateEmail(cfg.email) THEN "Invalid email format"
  ELSE IF GivenText(cfg, "password") /\ ValidatePassword(cfg.password) # "valid"
  THEN ValidatePassword(cfg.password)
  ELSE IF GivenString(cfg, "serverAddress") /\ ~ValidateServerAddress(cfg.serverAddress)
  THEN "Invalid server address format. Must be a valid HTTP/HTTPS URL"
  ELSE IF Has(cfg, "refreshInterval")
            /\ (cfg.refreshInterval < MinRefreshInterval
                  \/ cfg.refreshInterval > MaxRefreshInterval)
  THEN "Refresh interval must be between 1 and 1440 minutes"
  ELSE IF GivenString(cfg, "serverBinary") /\ ~PathExists(cfg.serverBinary)
  THEN "Server binary file does not exist"
  ELSE "valid"

\* variant: the stored values win over additionalConfig
ConfigFromStoredWins(rec, extra) ==
  MergeKeepsExisting(
    [k \in {"email", "password"}
          \cup (IF GivenString(rec, "serverAddress") THEN {"serverAddress"} ELSE {})
       |-> rec[k]], extra)

\* {email, password, ...(serverAddress && {serverAddress}), ...additionalConfig}
ConfigFrom(rec, extra) ==
  Merge(
    [k \in {"email", "password"}
          \cup (IF GivenString(rec, "serverAddress") THEN {"serverAddress"} ELSE {})
       |-> rec[k]], extra)

\* createConfigFromCredentials(additionalConfig) on the file f
CreateConfigResult(f, extra) ==
  LET loaded == LoadResult(f)
  IN  IF loaded.kind = "throw" THEN loaded
      ELSE IF loaded.value = NullValue
      THEN Result("throw", NullValue, AuthError("No stored credentials found"))
      ELSE IF ValidateConfig(ConfigFrom(loaded.value, extra)) # "valid"
      THEN Result("throw", NullValue,
                  ValidationError(ValidateConfig(ConfigFrom(loaded.value, extra))))
      ELSE Result("return", ConfigFrom(loaded.value, extra), NoErr)

\* the additionalConfig arguments createConfigFromCredentials() is called with
ExtraInputs ==
  {[defaultList |-> "Shopping"], [email |-> EmailB], [email |-> EmailBad],
   [password |-> PasswordShort], [serverAddress |-> "ftp://example.com"],
   [serverAddress |-> "https://api.example.com", refreshInterval |-> 30],
   [refreshInterval |-> 2000], [serverBinary |-> MissingBinary],
   [x \in {} |-> x]}

\* await authManager.saveCredentials(c)
SaveCredentials(c, mk, wr) ==
  LET e == SaveEffect(c, now, mk, wr, dirExists, file)
  IN  /\ dirExists => mk = "ok"
      /\ dirExists' = e.dir /\ file' = e.file
      /\ alast' = Outcome("saveCredentials", c, e.res.kind, e.res.value, e.res.err)
      /\ UNCHANGED now
      /\ UNCHANGED <<mgrVars, clientVars>>

\* await authManager.loadCredentials()
LoadCredentials ==
  LET r == LoadResult(file)
  IN  /\ alast' = Outcome("loadCredentials", NoArg, r.kind, r.value, r.err)
      /\ UNCHANGED <<dirExists, file, now>>
      /\ UNCHANGED <<mgrVars, clientVars>>

\* await authManager.updateCredentials(u)
UpdateCredentials(u, mk, wr) ==
  LET e == UpdateEffect(u, now, mk, wr, dirExists, file)
  IN  /\ dirExists => mk = "ok"
      /\ dirExists' = e.dir /\ file' = e.file
      /\ alast' = Outcome("updateCredentials", u, e.res.kind, e.res.value, e.res.err)
      /\ UNCHANGED now
      /\ UNCHANGED <<mgrVars, clientVars>>

\* variant: unlink is called without the existsSync test
DeleteCredentialsUnguarded(ul) ==
  /\ IF file.kind = "absent" \/ ul = "throws"
     THEN /\ file' = file
          /\ alast' = Outcome("deleteCredentials", NoArg, "throw", NullValue,
                              AuthError("Failed to delete credentials"))
     ELSE /\ file' = NoFile
          /\ alast' = Outcome("deleteCredentials", NoArg, "return", NullValue, NoErr)
  /\ UNCHANGED <<dirExists, now>>
  /\ UNCHANGED <<mgrVars, clientVars>>

\* await authManager.deleteCredentials(); unlink may fail
DeleteCredentials(ul) ==
  /\ IF file.kind = "absent"
     THEN /\ file' = file
          /\ alast' = Outcome("deleteCredentials", NoArg, "return", NullValue, NoErr)
     ELSE IF ul = "throws"
     THEN /\ file' = file
          /\ alast' = Outcome("deleteCredentials", NoArg, "throw", NullValue,
                              AuthError("Failed to delete credentials"))
     ELSE /\ file' = NoFile
          /\ alast' = Outcome("deleteCredentials", NoArg, "return", NullValue, NoErr)
  /\ UNCHANGED <<dirExists, now>>
  /\ UNCHANGED <<mgrVars, clientVars>>

\* await authManager.createConfigFromCredentials(extra)
CreateConfigFromCredentials(extra) ==
  LET r == CreateConfigResult(file, extra)
  IN  /\ alast' = Outcome("createConfigFromCredentials", extra, r.kind, r.value, r.err)
      /\ UNCHANGED <<dirExists, file, now>>
      /\ UNCHANGED <<mgrVars, clientVars>>

\* the configs validateConfig() is called with: every field left out, valid
\* or invalid
ConfigInputs ==
  {Without([email |-> e, password |-> pw, serverAddress |-> a,
            refreshInterval |-> n, serverBinary |-> b], drop) :
     e \in {EmailA, EmailBad, <<>>},
     pw \in {PasswordP, PasswordShort, PasswordEmpty},
     a \in {AddressA, "ftp://example.com", "invalid-url"},
     n \in {MinRefreshInterval - 1, MinRefreshInterval,
            MaxRefreshInterval, MaxRefreshInterval + 1},
     b \in {PresentBinary, MissingBinary},
     drop \in SUBSET {"email", "password", "serverAddress", "refreshInterval",
                      "serverBinary"}}

\* AuthManager.validateConfig(cfg), called on its own
ValidateConfigCall(cfg) ==
  /\ alast' = IF ValidateConfig(cfg) = "valid"
              THEN Outcome("validateConfig", cfg, "return", NullValue, NoErr)
              ELSE Outcome("validateConfig", cfg, "throw", NullValue,
                           ValidationError(ValidateConfig(cfg)))
  /\ UNCHANGED <<dirExists, file, now>>
  /\ UNCHANGED <<mgrVars, clientVars>>

\* another program writes the file (the file is not locked)
ExternalWrite(content) ==
  /\ file # content
  /\ file' = content /\ dirExists' = TRUE
  /\ alast' = Outcome("external", NoArg, "none", NullValue, NoErr)
  /\ UNCHANGED now
  /\ UNCHANGED <<mgrVars, clientVars>>

\* time passes
Tick ==
  /\ now < MaxTime /\ now' = now + 1
  /\ UNCHANGED <<dirExists, file, alast>>
  /\ UNCHANGED <<mgrVars, clientVars>>

(* --------------------------- specifications ---------------------------- *)

\* new AnyListServer(config) and new AnyList({})
Init ==
  /\ port = DefaultPort
  /\ isRunning = FALSE /\ process = NoProc
  /\ child = <<>> /\ sig = <<>> /\ exitCode = <<>> /\ emits = <<>>
  /\ stops = <<>> /\ rst = NoRestart
  /\ errorListener = FALSE
  /\ ret = NoStart /\ ncalls = 0
  /\ serverAddress = Undefined /\ binaryServer = "unset"
  /\ defaultList = Undefined
  /\ creq = <<>> /\ cres = NoResult /\ ccall = NoCall /\ cdata = <<>>
  /\ dirExists = FALSE /\ file = NoFile /\ now = 0 /\ alast = NoOperation

MgrNext(limit) ==
  \/ \E b \in BinaryStates, chm \in ChmodOutcomes, t \in BOOLEAN : StartCall(limit, b, chm, t)
  \/ \E a \in StopArgs : StopCall(limit, a[1], a[2])
  \/ RestartCall(limit)
  \/ \E b \in BinaryStates, chm \in ChmodOutcomes, t \in BOOLEAN : RestartDelayElapsed(b, chm, t)
  \/ \E i \in DOMAIN stops : ForceKillTimeout(i)
  \/ \E p \in Pids, c \in ExitCodes : ProcExit(p, c)
  \/ \E p \in Pids : ProcError(p)
  \/ AddErrorListener
  \/ RemoveErrorListener

ClientNext ==
  \/ \E op \in ClientOps, r \in AddressResponses : ClientCall(op, r, Undefined, <<>>)
  \/ \E b \in {"unset", "manager"} : SetBinaryServer(b)
  \/ \E a \in AddressValues : UpdateConfig(a)

\* the process manager under serialized lifecycle calls
Next == MgrNext(MaxCalls)
Spec == Init /\ [][Next]_vars

\* a child that was sent SIGKILL exits: the kernel ends it whatever it does
\* with other signals
KilledExit(p) ==
  \E c \in ExitCodes : p \in Pids /\ "SIGKILL" \in sig[p] /\ ProcExit(p, c)

\* the process manager when every armed timer fires and every killed child
\* delivers its exit; a child may ignore SIGTERM and SIGINT for ever
Fairness ==
  /\ \A i \in 1..MaxCalls : WF_vars(ForceKillTimeout(i))
  /\ \A p \in 1..MaxCalls : WF_vars(KilledExit(p))
SpecFair == Spec /\ Fairness

\* the client bound to a process manager
MgrLife(limit) ==
  \/ \E b \in BinaryStates, chm \in ChmodOutcomes, t \in BOOLEAN : StartCall(limit, b, chm, t)
  \/ \E p \in Pids, c \in ExitCodes : ProcExit(p, c)
  \/ \E p \in Pids : ProcError(p)

NextClient == MgrLife(MaxClientMgrCalls) \/ ClientNext
SpecClient == Init /\ [][NextClient]_vars

\* createAnyListSetup({serverBinary, email, password, port}): a manager with
\* the given port, or the default one, and a client without a configured
\* address bound to it
InitSetup ==
  /\ port \in Ports
  /\ isRunning = FALSE /\ process = NoProc
  /\ child = <<>> /\ sig = <<>> /\ exitCode = <<>> /\ emits = <<>>
  /\ stops = <<>> /\ rst = NoRestart
  /\ errorListener = FALSE
  /\ ret = NoStart /\ ncalls = 0
  /\ serverAddress = Undefined /\ binaryServer = "manager"
  /\ defaultList = Undefined
  /\ creq = <<>> /\ cres = NoResult /\ ccall = NoCall /\ cdata = <<>>
  /\ dirExists = FALSE /\ file = NoFile /\ now = 0 /\ alast = NoOperation
SpecSetup == InitSetup /\ [][NextClient]_vars

\* the payload that comes with a response: items or lists with a 200
PayloadsFor(op, resp) ==
  IF resp # 200 \/ op \notin ReadOps THEN {<<>>}
  ELSE IF op = "getLists" THEN ListSeqs
  ELSE ItemSeqs
\* getLists takes no listName
ListArgsFor(op) == IF op = "getLists" THEN {Undefined} ELSE ListArgs

\* the client against a remote service that answers with any status
NextHttp ==
  \/ \E op \in ClientOps, r \in Responses :
       \E l \in ListArgsFor(op), d \in PayloadsFor(op, r) : ClientCall(op, r, l, d)
  \/ \E a \in {Undefined, "http://remote:8080"} : UpdateConfig(a)
  \/ \E l \in DefaultLists : UpdateConfigDefaultList(l)
SpecHttp == Init /\ [][NextHttp]_vars

\* the credential store, with another program writing the file at times
NextAuth ==
  \/ \E c \in CredentialInputs, mk \in MkdirOutcomes, wr \in WriteOutcomes :
       SaveCredentials(c, mk, wr)
  \/ LoadCredentials
  \/ \E u \in UpdateInputs, mk \in MkdirOutcomes, wr \in WriteOutcomes :
       UpdateCredentials(u, mk, wr)
  \/ \E ul \in {"ok", "throws"} : DeleteCredentials(ul)
  \/ \E extra \in ExtraInputs : CreateConfigFromCredentials(extra)
  \/ \E content \in ExternalContents : ExternalWrite(content)
  \/ Tick
SpecAuth == Init /\ [][NextAuth]_vars

\* the credential store as the only writer of its file
NextStore ==
  \/ \E c \in CredentialInputs, mk \in MkdirOutcomes, wr \in WriteOutcomes :
       SaveCredentials(c, mk, wr)
  \/ LoadCredentials
  \/ \E u \in UpdateInputs, mk \in MkdirOutcomes, wr \in WriteOutcomes :
       UpdateCredentials(u, mk, wr)
  \/ \E ul \in {"ok", "throws"} : DeleteCredentials(ul)
  \/ Tick
SpecStore == Init /\ [][NextStore]_vars

\* the static configuration validator on every config
NextConfig == \E cfg \in ConfigInputs : ValidateConfigCall(cfg)
SpecConfig == Init /\ [][NextConfig]_vars

(* ------------------------------ claims --------------------------------- *)

Range(seq) == {seq[i] : i \in DOMAIN seq}

\* the restart() in progress or last finished stopped a running manager and
\* its stop() was rejected on the force-kill path
RestartStopForceKilled ==
  /\ rst.wasRunning /\ rst.stop \in DOMAIN stops
  /\ stops[rst.stop].sentKill /\ stops[rst.stop].state = "rejected"

\* C1: when the stop() inside restart() is rejected on the force-kill path,
\* restart() is not aborted: it goes on to the settle delay and calls start()
\* (it is waiting for the delay, has spawned, or failed inside start() itself).
C1_RestartProceedsAfterForceKill ==
  RestartStopForceKilled =>
    \/ rst.pc \in {"delay", "done"}
    \/ rst.pc = "failed" /\ rst.err # stops[rst.stop].err

\* C2: under serialized lifecycle calls a manager never has more than one
\* live child process at the same time.
C2_AtMostOneLiveChild == Cardinality(LiveChildren) <= 1

\* C3: available is true only while the manager holds the handle of a child
\* that start() spawned and announced and whose 'exit' and 'error' events have
\* not been handled; it is false before the first start() and right after the
\* handling of any exit or process error.
C3_AvailableOnlyRunning ==
  /\ [](Available(isRunning, process) =>
          /\ process \in Pids
          /\ child[process] = "live"
          /\ exitCode[process] = NoCode
          /\ Event("started", "", NoCode) \in Range(emits[process]))
  /\ [](Len(child) = 0 => ~Available(isRunning, process))
  /\ [][(\E p \in Pids : child[p] = "live" /\ child'[p] \in {"exited", "failed"})
          => ~Available(isRunning', process')]_vars

\* available is true for a second child after the first one has exited
C3_Witness ==
  /\ Available(isRunning, process)
  /\ \E p \in Pids : child[p] = "exited" /\ p # process

\* C4: a stop() that signalled a child settles by what happens first: when the
\* child's exit is delivered before the timeout the promise is resolved and
\* that call sends no SIGKILL; when the timeout elapses first the call sends
\* SIGKILL and the promise is rejected with a BINARY error.
C4_StopSettlesByFirstEvent ==
  \A i \in DOMAIN stops :
    /\ stops[i].first = "exit" =>
         stops[i].state = "resolved" /\ ~stops[i].sentKill
    /\ stops[i].first = "timeout" =>
         /\ stops[i].sentKill
         /\ stops[i].state = "rejected"
         /\ stops[i].err.type = "BINARY_ERROR"

\* C5: for every child whose exit has been delivered the manager emitted
\* 'stopped' with the exit code, and it emitted 'error' (BINARY, with that
\* code) exactly when the code is a positive number.
C5_ExitEmitsStopped ==
  \A p \in Pids :
    child[p] = "exited" =>
      /\ Event("stopped", "", exitCode[p]) \in Range(emits[p])
      /\ (exitCode[p] > 0) <=>
           (Event("error", "BINARY_ERROR", exitCode[p]) \in Range(emits[p]))
      /\ \A e \in Range(emits[p]) : e.ev = "error" => exitCode[p] > 0

\* a step in which start() ran: called by the application, or by restart()
\* when its settle delay elapsed
StartStep ==
  \/ ncalls' = ncalls + 1 /\ stops' = stops /\ rst' = rst
  \/ rst.pc = "delay" /\ rst'.pc # "delay"

\* C6: a start() that finds no file at the binary path throws a BINARY error
\* before anything is spawned: no child is created, nothing is emitted, the
\* handle is left as it was.
C6_MissingBinaryThrowsBeforeSpawn ==
  [][(StartStep /\ ~ret'.exists) =>
       /\ ret'.err.type = "BINARY_ERROR"
       /\ ret'.spawned = NoProc
       /\ child' = child
       /\ emits' = emits
       /\ process' = process]_vars

\* start() has thrown for a missing binary while an earlier child is live
C6_Witness ==
  /\ ~ret.exists /\ ret.err.type = "BINARY_ERROR"
  /\ LiveChildren # {}

\* a step in which stop() ran
StopStep == Len(stops') = Len(stops) + 1

\* C7: stop() on a manager that is not running (no handle, or isRunning
\* false) returns a promise that is already resolved, sends no signal, arms no
\* timer, registers no listener, emits nothing and leaves the manager's fields
\* and the children as they were.
C7_StopWhenNotRunningIsNoOp ==
  [][(StopStep /\ (process = NoProc \/ ~isRunning)) =>
       /\ stops'[Len(stops')].state = "resolved"
       /\ stops'[Len(stops')].timer = "none"
       /\ ~stops'[Len(stops')].attached
       /\ sig' = sig
       /\ emits' = emits
       /\ child' = child
       /\ isRunning' = isRunning
       /\ process' = process]_vars

\* stop() returned at once: on a manager never started, on one whose child has
\* exited, and on one whose start() failed
C7_Witness ==
  /\ stops # <<>>
  /\ stops[Len(stops)].first = "immediate"
  /\ \/ \E p \in Pids : child[p] = "exited"
     \/ ret.err # NoErr

\* C8: once a restart() of a running manager has got past its stop() (it
\* waits for the settle delay or has called start()), that stop() was made
\* with SIGTERM and 5000 ms and was resolved, the exit of the old child has
\* been delivered, the delay is the fixed one, and a child the restart
\* spawned is newer than the old one.
C8_RestartSpawnsAfterOldExit ==
  (rst.wasRunning /\ (rst.pc \in {"delay", "done"} \/ rst.new # NoProc)) =>
     /\ rst.stop \in DOMAIN stops
     /\ stops[rst.stop].signal = "SIGTERM"
     /\ stops[rst.stop].timeout = DefaultTimeout
     /\ stops[rst.stop].proc = rst.old
     /\ stops[rst.stop].state = "resolved"
     /\ child[rst.old] = "exited"
     /\ rst.delay = SettleDelay
     /\ rst.new # NoProc => rst.new > rst.old

\* a restart of a running manager has spawned the new child
C8_Witness ==
  /\ rst.wasRunning /\ rst.pc = "done"
  /\ rst.new \in Pids /\ child[rst.new] = "live"

\* a step in which a client operation ran and left a new outcome
ClientStep == <<creq, cres>>' # <<creq, cres>>

\* C9: a client operation called while no server address is configured and
\* no bound manager is available throws a SERVER error and hands no request
\* to the transport, whichever operation it is.
C9_NoServerRaisesServerError ==
  [][(/\ ClientStep
      /\ serverAddress \in {Undefined, ""}
      /\ ~(binaryServer = "manager" /\ isRunning /\ process # NoProc)) =>
       /\ cres'.kind = "throw"
       /\ cres'.err.type = "SERVER_ERROR"
       /\ creq' = <<>>]_vars

\* a read has thrown SERVER without a request while a manager is bound whose
\* child has gone
C9_Witness ==
  /\ cres.op \in ReadOps /\ cres.kind = "throw" /\ cres.err.type = "SERVER_ERROR"
  /\ creq = <<>>
  /\ binaryServer = "manager" /\ Len(child) > 0 /\ ~isRunning

\* C10: a client operation sends its one request to the configured server
\* address, verbatim, followed by "/" and the endpoint name whenever an
\* address is configured, also when a bound manager is available; with no
\* address configured it uses the loopback address iff a bound manager is
\* available at that call, and sends nothing otherwise.
C10_AddressResolution ==
  [][ClientStep =>
       LET managerUp == binaryServer = "manager" /\ isRunning /\ process # NoProc
           urlOf(a) == a \o "/" \o Endpoint(cres'.op)
       IN  /\ serverAddress \notin {Undefined, ""} =>
                 /\ Len(creq') = 1
                 /\ creq'[1].url = urlOf(serverAddress)
           /\ (serverAddress \in {Undefined, ""} /\ managerUp) =>
                 /\ Len(creq') = 1
                 /\ creq'[1].url = urlOf("http://127.0.0.1:28597")
           /\ (serverAddress \in {Undefined, ""} /\ ~managerUp) => creq' = <<>>]_vars

\* a request went to the configured address while the bound manager was
\* available
C10_Witness ==
  /\ Len(creq) = 1 /\ creq[1].url = "http://remote:8080//add"
  /\ serverAddress = "http://remote:8080/"
  /\ binaryServer = "manager" /\ Available(isRunning, process)

\* C11: availability is re-read on every call. For a client without a
\* configured address bound to a manager, a child's exit or failure leaves
\* the manager not Running, the operation called next while it is not
\* Running throws a SERVER error and sends nothing, and an operation called
\* while it is Running again sends its request to the loopback address.
C11_AvailabilityReReadPerCall ==
  /\ [][(\E p \in Pids : child[p] = "live" /\ child'[p] \in {"exited", "failed"})
          => ~(isRunning' /\ process' # NoProc)]_vars
  /\ [][(ClientStep /\ serverAddress \in {Undefined, ""} /\ binaryServer = "manager") =>
          IF isRunning /\ process # NoProc
          THEN /\ Len(creq') = 1
               /\ creq'[1].url = "http://127.0.0.1:28597" \o "/" \o Endpoint(cres'.op)
          ELSE /\ creq' = <<>>
               /\ cres'.kind = "throw"
               /\ cres'.err.type = "SERVER_ERROR"]_vars

\* after a child of the bound manager exited and a later start() made the
\* manager Running again, a request went to the loopback address
C11_Witness ==
  /\ serverAddress \in {Undefined, ""} /\ binaryServer = "manager"
  /\ \E p \in Pids : child[p] \in {"exited", "failed"}
  /\ isRunning /\ process \in Pids /\ child[process] = "live"
  /\ Len(creq) = 1 /\ creq[1].url = "http://127.0.0.1:28597/items"

\* C12: addItem, removeItemByName, removeItemById and checkItem return the
\* status iff the response status is 200 or 304; any other status makes them
\* throw a SERVER error carrying that status, and a transport failure makes
\* them throw a NETWORK error.
C12_WriteSucceedsIff200Or304 ==
  (/\ cres.op \in {"addItem", "removeItemByName", "removeItemById", "checkItem"}
   /\ ccall.resp # NoCode) =>
     /\ ccall.resp \in {200, 304} <=> cres.kind = "return"
     /\ cres.kind = "return" => cres.code = ccall.resp
     /\ ccall.resp \notin {200, 304, TransportFailure} =>
          /\ cres.kind = "throw" /\ cres.err.type = "SERVER_ERROR"
          /\ cres.err.code = ccall.resp
     /\ ccall.resp = TransportFailure =>
          cres.kind = "throw" /\ cres.err.type = "NETWORK_ERROR"

\* C13: getDetailedItems and getLists never throw because of a response
\* status or a transport failure: a status other than 200 is returned with an
\* empty list, and a transport failure gives 500 with an empty list.
C13_ReadsNeverThrowOnStatus ==
  (cres.op \in {"getDetailedItems", "getLists"} /\ ccall.resp # NoCode) =>
     /\ cres.kind = "return"
     /\ ccall.resp \notin {200, TransportFailure} =>
          cres.code = ccall.resp /\ cdata = <<>>
     /\ ccall.resp = TransportFailure => cres.code = 500 /\ cdata = <<>>

\* C14: updateItem returns only for a 200 response; 304, like every other
\* status that is not 200, makes it throw a SERVER error carrying that status.
C14_UpdateItemOnly200 ==
  (cres.op = "updateItem" /\ ccall.resp # NoCode) =>
     /\ cres.kind = "return" => ccall.resp = 200 /\ cres.code = 200
     /\ ccall.resp = 200 => cres.kind = "return"
     /\ ccall.resp \notin {200, TransportFailure} =>
          /\ cres.kind = "throw" /\ cres.err.type = "SERVER_ERROR"
          /\ cres.err.code = ccall.resp

\* the names of the items of s whose checked flag is c, in the order of s
RECURSIVE NamesWith(_, _)
NamesWith(s, c) ==
  IF s = <<>> THEN <<>>
  ELSE IF Head(s).checked = c THEN <<Head(s).name>> \o NamesWith(Tail(s), c)
  ELSE NamesWith(Tail(s), c)

\* C15: for a 200 response with the items S, getItems returns the names of
\* the unchecked items of S in order and getAllItems the pair (unchecked
\* names, checked names), each in order; for every other response status both
\* return that status with empty lists.
C15_ItemsPartition ==
  (/\ cres.op \in {"getItems", "getAllItems"}
   /\ ccall.resp \notin {NoCode, TransportFailure}) =>
     /\ cres.kind = "return" /\ cres.code = ccall.resp
     /\ cdata = IF cres.op = "getItems"
                THEN (IF ccall.resp = 200 THEN NamesWith(ccall.payload, FALSE) ELSE <<>>)
                ELSE (IF ccall.resp = 200
                      THEN <<NamesWith(ccall.payload, FALSE), NamesWith(ccall.payload, TRUE)>>
                      ELSE << <<>>, <<>> >>)

\* the list name a request carries, a left-out list parameter being empty
SentList(req) == IF req.list = Undefined THEN "" ELSE req.list

\* C16: the list name an operation sends is its listName argument whenever
\* one is supplied, otherwise the configured default list, otherwise the
\* empty string; an empty name is sent as it is and raises no error.
C16_ListNameSuppliedWins ==
  [][(ClientStep /\ cres'.op # "getLists" /\ Len(creq') = 1) =>
       /\ SentList(creq'[1]) =
            IF ccall'.listName # Undefined THEN ccall'.listName
            ELSE IF defaultList # Undefined THEN defaultList
            ELSE ""
       /\ cres'.kind = "throw" => cres'.err.type \in {"SERVER_ERROR", "NETWORK_ERROR"}]_vars

\* C16, amended: the list name an operation sends is its listName argument
\* whenever a non-empty one is supplied, otherwise the configured default
\* list if that is non-empty, otherwise the empty string; a write sends the
\* empty name in its body, an item read leaves the list parameter out, and
\* neither raises an error for it.
C16_ListNameNonEmptyWins ==
  [][(ClientStep /\ cres'.op # "getLists" /\ Len(creq') = 1) =>
       LET name == IF ccall'.listName \notin {Undefined, ""} THEN ccall'.listName
                   ELSE IF defaultList \notin {Undefined, ""} THEN defaultList
                   ELSE ""
       IN  /\ SentList(creq'[1]) = name
           /\ (cres'.op \notin ReadOps) => creq'[1].list = name
           /\ (cres'.op \in ReadOps /\ name = "") => creq'[1].list = Undefined
           /\ cres'.kind = "throw" =>
                cres'.err.type \in {"SERVER_ERROR", "NETWORK_ERROR"}]_vars

\* addItem called with an empty listName sent the configured default list
C16_Witness ==
  /\ cres.op = "addItem" /\ cres.kind = "return"
  /\ ccall.listName = "" /\ defaultList = "Shopping"
  /\ Len(creq) = 1 /\ creq[1].list = "Shopping"

\* a step in which loadCredentials() ran
LoadStep == alast'.op = "loadCredentials" /\ alast' # alast
\* a step in which saveCredentials() or updateCredentials() ran
StoreStep(op) ==
  alast'.op = op /\ <<alast, file, dirExists>>' # <<alast, file, dirExists>>

\* C17: round trip. After saveCredentials(c) has returned, whatever the file
\* was before, the loadCredentials() that follows returns a record whose
\* email and password are those of c, whose serverAddress is that of c and
\* is absent when c has none, with a savedAt timestamp and nothing else.
C17_SaveLoadRoundTrip ==
  [][(LoadStep /\ alast.op = "saveCredentials" /\ alast.kind = "return") =>
       LET c == alast.arg
           r == alast'.value
           given == "serverAddress" \in DOMAIN c /\ c.serverAddress # "<undefined>"
       IN  /\ alast'.kind = "return"
           /\ DOMAIN r = {"email", "password", "savedAt"}
                           \cup (IF given THEN {"serverAddress"} ELSE {})
           /\ r.email = c.email /\ r.password = c.password
           /\ given => r.serverAddress = c.serverAddress
           /\ r.savedAt \in 0..now]_vars

\* a record without serverAddress was loaded from a file that another
\* program had created before saveCredentials() overwrote it
C17_Witness ==
  /\ alast.op = "loadCredentials" /\ alast.kind = "return"
  /\ DOMAIN alast.value = {"email", "password", "savedAt"}
  /\ file.kind = "json" /\ file.mode = "0644" /\ file.value = alast.value

\* C18: updateCredentials(partial) throws an AUTH error and changes nothing
\* when no record can be loaded; when it returns, the stored record has every
\* supplied field replaced, every other field as before and savedAt set to
\* the time of the call; when the merged email or password is invalid it
\* throws a VALIDATION error and leaves the file as it was.
C18_UpdateMergesAndRevalidates ==
  [][StoreStep("updateCredentials") =>
       LET u == alast'.arg
           stored == file.kind = "json"
                       /\ "email" \in DOMAIN file.value /\ file.value.email # <<>>
                       /\ "password" \in DOMAIN file.value /\ file.value.password # <<>>
           email == IF "email" \in DOMAIN u THEN u.email ELSE file.value.email
           password == IF "password" \in DOMAIN u THEN u.password ELSE file.value.password
       IN  /\ ~stored =>
                /\ alast'.kind = "throw" /\ alast'.err.type = "AUTH_ERROR"
                /\ file' = file /\ dirExists' = dirExists
           /\ (stored /\ (~ValidateEmail(email) \/ Len(password) < 6)) =>
                /\ alast'.kind = "throw" /\ alast'.err.type = "VALIDATION_ERROR"
                /\ file' = file
           /\ (stored /\ ValidateEmail(email) /\ Len(password) >= 6
                 /\ alast'.kind = "throw") => alast'.err.type = "AUTH_ERROR"
           /\ alast'.kind = "return" =>
                /\ stored /\ file'.kind = "json"
                /\ DOMAIN file'.value = DOMAIN file.value \cup DOMAIN u \cup {"savedAt"}
                /\ \A k \in DOMAIN u : file'.value[k] = u[k]
                /\ \A k \in DOMAIN file.value \ (DOMAIN u \cup {"savedAt"}) :
                     file'.value[k] = file.value[k]
                /\ file'.value.savedAt = now]_vars

\* an update of the server address alone has returned: the stored email and
\* password are the ones saved before
C18_Witness ==
  /\ alast.op = "updateCredentials" /\ alast.kind = "return"
  /\ DOMAIN alast.arg = {"serverAddress"}
  /\ file.kind = "json" /\ file.value.serverAddress = AddressB
  /\ file.value.email = EmailA /\ file.value.password = PasswordP

\* C19: saveCredentials called with a malformed email, an empty password or
\* a password shorter than 6 characters throws a VALIDATION error before any
\* file I/O: the directory is not created and the file stays as it was.
C19_InvalidSaveTouchesNothing ==
  [][(/\ StoreStep("saveCredentials")
      /\ \/ ~ValidateEmail(alast'.arg.email)
         \/ Len(alast'.arg.password) < 6) =>
       /\ alast'.kind = "throw" /\ alast'.err.type = "VALIDATION_ERROR"
       /\ dirExists' = dirExists /\ file' = file]_vars

\* a save with a short password was refused while the directory did not
\* exist, and it still does not exist
C19_Witness ==
  /\ alast.op = "saveCredentials" /\ alast.err.type = "VALIDATION_ERROR"
  /\ alast.arg.password = PasswordShort
  /\ ~dirExists /\ file.kind = "absent"

\* C20: loadCredentials returns null iff the file does not exist; it throws
\* an AUTH error if the file is not parseable JSON or the parsed value has no
\* email or no password (a missing or empty one); otherwise it returns the
\* stored record; it never changes the file.
C20_LoadOutcomes ==
  [][LoadStep =>
       LET lacks(k) == file.kind = "null" \/ k \notin DOMAIN file.value
                          \/ file.value[k] = <<>>
       IN  /\ file' = file /\ dirExists' = dirExists
           /\ IF file.kind = "absent"
              THEN alast'.kind = "return" /\ alast'.value = [null |-> TRUE]
              ELSE IF file.kind = "text" \/ lacks("email") \/ lacks("password")
              THEN alast'.kind = "throw" /\ alast'.err.type = "AUTH_ERROR"
              ELSE alast'.kind = "return" /\ alast'.value = file.value]_vars

\* loading a file whose JSON record has no password threw an AUTH error
C20_Witness ==
  /\ alast.op = "loadCredentials" /\ alast.kind = "throw"
  /\ alast.err.type = "AUTH_ERROR"
  /\ file.kind = "json" /\ "password" \notin DOMAIN file.value

\* C21: after every saveCredentials that returned, whether it created the
\* file or overwrote an existing one, the mode of the credentials file gives
\* read and write access to the owner only (0600).
C21_SavedFileOwnerOnly ==
  (alast.op = "saveCredentials" /\ alast.kind = "return") =>
     file.kind = "json" /\ file.mode = "0600"

\* C22: createConfigFromCredentials(extra) throws an AUTH error when no
\* record can be loaded; otherwise the config it returns has the email, the
\* password and, when one is stored, the serverAddress of the record, every
\* field of extra taking precedence over the stored value; it throws a
\* VALIDATION error instead of returning exactly when validateConfig rejects
\* that merged config. The file is not touched.
C22_ConfigFromCredentials ==
  [][(alast'.op = "createConfigFromCredentials" /\ alast' # alast) =>
       LET extra == alast'.arg
           stored == file.kind = "json"
                       /\ "email" \in DOMAIN file.value /\ file.value.email # <<>>
                       /\ "password" \in DOMAIN file.value /\ file.value.password # <<>>
           fromRecord == {"email", "password"}
                           \cup ({"serverAddress"} \cap DOMAIN file.value)
           merged == [k \in fromRecord \cup DOMAIN extra |->
                        IF k \in DOMAIN extra THEN extra[k] ELSE file.value[k]]
       IN  /\ file' = file /\ dirExists' = dirExists
           /\ ~stored => alast'.kind = "throw" /\ alast'.err.type = "AUTH_ERROR"
           /\ (stored /\ ValidateConfig(merged) # "valid") =>
                alast'.kind = "throw" /\ alast'.err.type = "VALIDATION_ERROR"
           /\ (stored /\ ValidateConfig(merged) = "valid") =>
                alast'.kind = "return" /\ alast'.value = merged]_vars

\* a config was returned whose server address comes from extra and whose
\* email and password come from a stored record with another server address
C22_Witness ==
  /\ alast.op = "createConfigFromCredentials" /\ alast.kind = "return"
  /\ "serverAddress" \in DOMAIN alast.value
  /\ alast.value.serverAddress = "https://api.example.com"
  /\ file.kind = "json" /\ "serverAddress" \in DOMAIN file.value
  /\ file.value.serverAddress = AddressA
  /\ alast.value.email = file.value.email

\* C23: after a deleteCredentials() that returned the file is absent and the
\* loadCredentials() that follows returns null, whether or not there was a
\* file; with no file the call returns without an error and changes nothing,
\* so a second delete leaves what the first one left; the call throws only
\* when the file cannot be removed, and then as an AUTH error.
C23_DeleteLeavesNoFile ==
  /\ [][(alast'.op = "deleteCredentials" /\ <<alast, file>>' # <<alast, file>>) =>
          /\ alast'.kind = "return" => file'.kind = "absent"
          /\ file.kind = "absent" => alast'.kind = "return" /\ file' = file
          /\ alast'.kind = "throw" => alast'.err.type = "AUTH_ERROR" /\ file' = file
          /\ dirExists' = dirExists]_vars
  /\ [][(LoadStep /\ alast.op = "deleteCredentials" /\ alast.kind = "return") =>
          alast'.kind = "return" /\ alast'.value = [null |-> TRUE]]_vars
  /\ [](alast.op = "deleteCredentials" /\ alast.kind = "return" => file.kind = "absent")

\* deleteCredentials() has returned and there is no file in a directory
\* that was created for one
C23_Witness ==
  /\ alast.op = "deleteCredentials" /\ alast.kind = "return"
  /\ file.kind = "absent" /\ dirExists

\* C24: validateConfig throws a VALIDATION error for every config that has a
\* malformed email, a password shorter than 6 characters, a serverAddress
\* that is not an http or https URL, a refreshInterval outside 1..1440 or a
\* serverBinary path that does not exist, and returns for every other config,
\* fields that are left out not being checked.
C24_ValidateConfigRejectsInvalid ==
  alast.op = "validateConfig" =>
    LET cfg == alast.arg
        has(k) == k \in DOMAIN cfg
        invalid ==
          \/ has("email") /\ ~ValidateEmail(cfg.email)
          \/ has("password") /\ Len(cfg.password) < 6
          \/ has("serverAddress") /\ UrlProtocol(cfg.serverAddress) \notin {"http:", "https:"}
          \/ has("refreshInterval") /\ cfg.refreshInterval \notin 1..1440
          \/ has("serverBinary") /\ cfg.serverBinary # "/opt/anylist/server"
    IN  IF invalid
        THEN alast.kind = "throw" /\ alast.err.type = "VALIDATION_ERROR"
        ELSE alast.kind = "return"

\* C25: once a stop() call that signalled a child has settled, by the child's
\* exit or by the timeout with force kill, the 'exit' and 'error' listeners
\* it registered on the child are no longer attached, so the settled calls
\* leave no listeners behind however many there are.
C25_SettledStopDetached ==
  \A i \in DOMAIN stops :
    (stops[i].proc # NoProc /\ stops[i].state \in {"resolved", "rejected"})
      => ~stops[i].attached

\* C26: a start() that throws because the binary is missing or its
\* executable bit cannot be checked or set, called while the manager is
\* Running with a live child, leaves the manager as it was: it is still
\* available with the same handle, and a stop() called next signals that
\* child.
C26_FailedStartKeepsRunning ==
  /\ [][(/\ StartStep
         /\ ret'.err.type = "BINARY_ERROR" /\ ret'.err.msg # "Failed to start server"
         /\ isRunning /\ process \in Pids /\ child[process] = "live") =>
          /\ isRunning' /\ process' = process
          /\ child' = child]_vars
  /\ [][(/\ StopStep
         /\ ret.err.type = "BINARY_ERROR" /\ ret.err.msg # "Failed to start server"
         /\ process \in Pids /\ child[process] = "live") =>
          /\ stops'[Len(stops')].proc = process
          /\ stops'[Len(stops')].signal \in sig'[process]]_vars

\* C27: the 'exit' or 'error' event of a child that is not the one the
\* manager tracks never changes the tracking of the newer child: the manager
\* stays available with the newer child as its handle.
C27_OldChildEventKeepsNewHandle ==
  [][(\E p \in Pids :
        /\ child[p] = "live" /\ child'[p] \in {"exited", "failed"}
        /\ isRunning /\ process \in Pids /\ process # p) =>
       isRunning' /\ process' = process]_vars

\* C28: every stop() call eventually settles when timers fire and process
\* events are delivered: no promise returned by stop() stays pending for
\* ever, whatever happens to the manager while it waits and even if the
\* child ignores the termination signal.
C28_StopEventuallySettles ==
  \A i \in 1..MaxCalls :
    (i \in DOMAIN stops /\ stops[i].state = "pending")
      ~> (i \in DOMAIN stops /\ stops[i].state # "pending")

\* C29: when the store is the only writer, after any sequence of awaited
\* saveCredentials, updateCredentials and deleteCredentials calls, whether
\* they succeed or fail, the credentials file is absent or holds a record
\* with a well-formed email and a password of at least six characters, so
\* loadCredentials never raises on it.
C29_StoreFileWellFormed ==
  /\ \/ file.kind = "absent"
     \/ /\ file.kind = "json"
        /\ Has(file.value, "email") /\ Has(file.value, "password")
        /\ ValidateEmail(file.value.email)
        /\ ValidatePassword(file.value.password) = "valid"
  /\ LoadResult(file).kind = "return"

\* C30: when an operation resolves its address through the bound, available
\* manager (no address is configured), its request goes to the loopback
\* address at the port the manager passed to its child with --port, for
\* the default port and for any other port given to createAnyListSetup.
C30_ResolvedPortIsManagerPort ==
  [][(ClientStep /\ serverAddress \in {Undefined, ""}
        /\ binaryServer = "manager" /\ Available(isRunning, process)) =>
       /\ Len(creq') = 1
       /\ creq'[1].url = "http://127.0.0.1:" \o PortArg \o "/" \o Endpoint(cres'.op)]_vars
====
